---- MODULE Spec2Model ----
(***************************************************************************)
(* MPEG audio frame header parsing (mpegaudio/mpegaudioframe.cpp) and the  *)
(* generic track header parsing that drives it (abstracttrack.cpp).        *)
(*                                                                         *)
(* A 32-bit word is kept as its two 16-bit halves [hi, lo] (value          *)
(* hi * 65536 + lo), a 64-bit word as two 32-bit words [hi, lo]; a mask    *)
(* of the source selects a bit field of one half.                          *)
(***************************************************************************)
EXTENDS Integers, Sequences, FiniteSets, TLC

VARIABLES
    file,                   \* the bytes behind the track's input stream
    pos,                    \* read position of the input stream
    m_startOffset,          \* AbstractTrack::m_startOffset
    m_headerValid,          \* AbstractTrack::m_headerValid
    m_header,               \* MpegAudioFrame::m_header
    m_xingHeader,           \* MpegAudioFrame::m_xingHeader
    m_xingHeaderFlags,      \* MpegAudioFrame::m_xingHeaderFlags
    m_xingFramefield,       \* MpegAudioFrame::m_xingFramefield
    m_xingBytesfield,       \* MpegAudioFrame::m_xingBytesfield
    m_xingQualityIndicator, \* MpegAudioFrame::m_xingQualityIndicator
    call,                   \* the most recent parseHeader call and how it went
    ret                     \* the most recent accessor call and what it returned

vars == <<file, pos, m_startOffset, m_headerValid, m_header, m_xingHeader,
          m_xingHeaderFlags, m_xingFramefield, m_xingBytesfield,
          m_xingQualityIndicator, call, ret>>

(***************************************************************************)
(* Bounds.                                                                 *)
(***************************************************************************)
\* the track starts at one of the offsets 0..MaxStartOffset of its stream
MaxStartOffset == 1
\* the top eleven header bits range over 2047 - MaxSyncDefect .. 2047
MaxSyncDefect == 1

(***************************************************************************)
(* Words and bit fields.                                                   *)
(***************************************************************************)
Pow2(n) == 2 ^ n

\* bits shift .. shift+width-1 of the 16-bit half x
Bits(x, shift, width) == (x \div Pow2(shift)) % Pow2(width)

Word(hi, lo) == [hi |-> hi, lo |-> lo]

ZeroWord == Word(0, 0)

ZeroWord64 == [hi |-> ZeroWord, lo |-> ZeroWord]

(***************************************************************************)
(* MpegAudioFrame: the header's bit fields.                                *)
(***************************************************************************)
\* m_header & 0x180000u, as the two version bits
versionBits(h) == Bits(h.hi, 3, 2)

\* m_header & 0x60000u, as the two layer bits
layerBits(h) == Bits(h.hi, 1, 2)

\* (m_header & 0xf000u) >> 12
bitrateIndex(h) == Bits(h.lo, 12, 4)

\* m_header & 0xc00u, as the two sample rate bits
sampleRateBits(h) == Bits(h.lo, 10, 2)

\* m_header & 0x200u, as one bit
paddingBit(h) == Bits(h.lo, 9, 1)

\* m_header & 0xc0u, as the two channel mode bits
channelBits(h) == Bits(h.lo, 6, 2)

\* (m_header & m_sync) == m_sync, m_sync = 0xFFE00000: the top eleven bits
isValid(h) == Bits(h.hi, 5, 11) = 2047

\* mpegVersion(), in tenths: 10, 20, 25, and 0 when the bits are reserved
mpegVersion(h) ==
    CASE versionBits(h) = 3 -> 10
      [] versionBits(h) = 2 -> 20
      [] versionBits(h) = 0 -> 25
      [] OTHER -> 0

layer(h) ==
    CASE layerBits(h) = 3 -> 1
      [] layerBits(h) = 2 -> 2
      [] layerBits(h) = 1 -> 3
      [] OTHER -> 0

m_bitrateTable ==
    << << <<0,32,64,96,128,160,192,224,256,288,320,352,384,416,448>>,
          <<0,32,48,56,64,80,96,112,128,160,192,224,256,320,384>>,
          <<0,32,40,48,56,64,80,96,112,128,160,192,224,256,320>> >>,
       << <<0,32,48,56,64,80,96,112,128,144,160,176,192,224,256>>,
          <<0,8,16,24,32,40,48,56,64,80,96,112,128,144,160>>,
          <<0,8,16,24,32,40,48,56,64,80,96,112,128,144,160>> >> >>

\* the MPEG 2.0 label of the sample rate index 0 not matched
sampelRate_bug(h) ==
    CASE sampleRateBits(h) = 3 -> 0
      [] sampleRateBits(h) = 2 ->
            (CASE versionBits(h) = 3 -> 32000
               [] versionBits(h) = 2 -> 16000
               [] versionBits(h) = 0 -> 8000
               [] OTHER -> 0)
      [] sampleRateBits(h) = 1 ->
            (CASE versionBits(h) = 3 -> 48000
               [] versionBits(h) = 2 -> 24000
               [] versionBits(h) = 0 -> 12000
               [] OTHER -> 0)
      [] OTHER ->
            (CASE versionBits(h) = 3 -> 44100
               [] versionBits(h) = 2 -> 0
               [] versionBits(h) = 0 -> 11025
               [] OTHER -> 0)

sampelRate(h) ==
    CASE sampleRateBits(h) = 3 -> 0
      [] sampleRateBits(h) = 2 ->
            (CASE versionBits(h) = 3 -> 32000
               [] versionBits(h) = 2 -> 16000
               [] versionBits(h) = 0 -> 8000
               [] OTHER -> 0)
      [] sampleRateBits(h) = 1 ->
            (CASE versionBits(h) = 3 -> 48000
               [] versionBits(h) = 2 -> 24000
               [] versionBits(h) = 0 -> 12000
               [] OTHER -> 0)
      [] OTHER ->
            (CASE versionBits(h) = 3 -> 44100
               [] versionBits(h) = 2 -> 22050
               [] versionBits(h) = 0 -> 11025
               [] OTHER -> 0)

\* MPEG 2.0 not told from MPEG 1.0 for layer III
sampleCount_bug(h) ==
    CASE layerBits(h) = 3 -> 384
      [] layerBits(h) = 2 -> 1152
      [] layerBits(h) = 1 ->
            (CASE versionBits(h) = 3 -> 1152
               [] versionBits(h) = 2 -> 1152
               [] versionBits(h) = 0 -> 576
               [] OTHER -> 0)
      [] OTHER -> 0

\* a layer III header with reserved version bits leaves the inner switch
\* without a return and falls through to the default label
sampleCount(h) ==
    CASE layerBits(h) = 3 -> 384
      [] layerBits(h) = 2 -> 1152
      [] layerBits(h) = 1 ->
            (CASE versionBits(h) = 3 -> 1152
               [] versionBits(h) = 2 -> 576
               [] versionBits(h) = 0 -> 576
               [] OTHER -> 0)
      [] OTHER -> 0

\* what a read past the fifteen entries of a table row may yield (uint16)
UnspecifiedBitrates == {0, 1, 1000}

\* bitrate(): the table row of the version and the layer, indexed by the
\* bitrate index; 0 when the version or the layer is unknown.  The index
\* 15 reads past the row's fifteen entries.
bitrateOutcomes(h) ==
    IF mpegVersion(h) > 0 /\ layer(h) > 0
    THEN IF bitrateIndex(h) < 15
         THEN {m_bitrateTable[IF mpegVersion(h) = 10 THEN 1 ELSE 2]
                             [layer(h)][bitrateIndex(h) + 1]}
         ELSE UnspecifiedBitrates
    ELSE {0}

\* paddingSize(): the padding slot in bytes, 4 for layer I and 1 for the
\* layers II and III, when the padding bit of a valid header is set
paddingSize(h) ==
    IF isValid(h) /\ paddingBit(h) = 1
    THEN (IF layerBits(h) = 3 THEN 4 ELSE 1)
    ELSE 0

\* what the conversion of an infinity or a NaN to uint32 may yield
UnspecifiedSizes == {0, 1, 2147483647}

\* the layers' return expression of size() for the bitrate b:
\* uint32(((double(b) * 1024.0 / 8.0) / double(sampelRate())) *
\*        double(sampleCount()) + double(paddingSize())).
\* No table bitrate makes the quotient times the sample count a whole number,
\* so the truncated double is the floor of the exact value.  A sample rate
\* of 0 divides by zero and converts an infinity or a NaN.
sizeOf(h, b) ==
    IF sampelRate(h) = 0
    THEN UnspecifiedSizes
    ELSE {(b * 128 * sampleCount(h)) \div sampelRate(h) + paddingSize(h)}

\* size(): the values the call may return
sizeOutcomes(h) ==
    IF layerBits(h) = 0
    THEN {0}
    ELSE UNION {sizeOf(h, b) : b \in bitrateOutcomes(h)}

\* size() evaluates a division by a sample rate of zero
sizeDividesByZero(h) == layerBits(h) # 0 /\ sampelRate(h) = 0

(***************************************************************************)
(* The accessors applied to every header.                                  *)
(***************************************************************************)
NoCall == [fn |-> "none", val |-> 0, divZero |-> FALSE]

NoParse ==
    [via |-> "none", result |-> "none", validBefore |-> FALSE, start |-> 0,
     xingAt |-> 0, log |-> <<>>, kept |-> {}]

\* the headers under test: every version, layer, bitrate index, sample rate
\* index, padding bit and channel mode, under each sync pattern
Headers ==
    { Word((2047 - d) * 32 + v * 8 + l * 2 + 1,
           i * 4096 + s * 1024 + p * 512 + c * 64)
        : d \in 0..MaxSyncDefect, v \in 0..3, l \in 0..3, i \in 0..15,
          s \in 0..3, p \in 0..1, c \in {0, 3} }

InitFn ==
    /\ m_header \in Headers
    /\ file = <<>>
    /\ pos = 0
    /\ m_startOffset = 0
    /\ m_headerValid = FALSE
    /\ m_xingHeader = ZeroWord64
    /\ m_xingHeaderFlags = ZeroWord
    /\ m_xingFramefield = ZeroWord
    /\ m_xingBytesfield = ZeroWord
    /\ m_xingQualityIndicator = ZeroWord
    /\ call = NoParse
    /\ ret = NoCall

Returns(fn, v) ==
    /\ ret' = [fn |-> fn, val |-> v, divZero |-> FALSE]
    /\ UNCHANGED <<file, pos, m_startOffset, m_headerValid, m_header,
                   m_xingHeader, m_xingHeaderFlags, m_xingFramefield,
                   m_xingBytesfield, m_xingQualityIndicator, call>>

CallMpegVersion == Returns("mpegVersion", mpegVersion(m_header))

CallLayer == Returns("layer", layer(m_header))

CallSampelRate == Returns("sampelRate", sampelRate(m_header))

CallSampleCount == Returns("sampleCount", sampleCount(m_header))

CallBitrate == \E b \in bitrateOutcomes(m_header) : Returns("bitrate", b)

CallSize ==
    \E v \in sizeOutcomes(m_header) :
        /\ ret' = [fn |-> "size", val |-> v,
                   divZero |-> sizeDividesByZero(m_header)]
        /\ UNCHANGED <<file, pos, m_startOffset, m_headerValid, m_header,
                       m_xingHeader, m_xingHeaderFlags, m_xingFramefield,
                       m_xingBytesfield, m_xingQualityIndicator, call>>

NextFn ==
    \/ CallMpegVersion
    \/ CallLayer
    \/ CallSampelRate
    \/ CallSampleCount
    \/ CallBitrate
    \/ CallSize

SpecFn == InitFn /\ [][NextFn]_vars

(***************************************************************************)
(* The files behind the stream: base bytes of an ID3 tag, the frame        *)
(* header, the side information, and the Xing header where an encoder      *)
(* puts it, followed by the fields its flags announce: frame count (4      *)
(* bytes), byte count (4 bytes), TOC (100 bytes), quality indicator (4     *)
(* bytes).                                                                 *)
(***************************************************************************)
\* "Xing" = 0x58696e67 and "Info" = 0x496e666f
XingTag == Word(22633, 28263)

InfoTag == Word(18798, 26223)

\* where the Xing header starts, counted from the frame's first byte: after
\* the 4 header bytes and the side information of 32, 17 or 9 bytes
sideDataOffset(h) ==
    IF versionBits(h) = 3
    THEN (IF channelBits(h) = 3 THEN 21 ELSE 36)
    ELSE (IF channelBits(h) = 3 THEN 13 ELSE 21)

wordByte(w, k) ==
    CASE k = 0 -> w.hi \div 256
      [] k = 1 -> w.hi % 256
      [] k = 2 -> w.lo \div 256
      [] OTHER -> w.lo % 256

FramesValue == Word(0, 4660)

BytesValue == Word(18, 54919)

QualityValue == Word(0, 78)

tocByte(k) == (k * 256) \div 100

fullLength(base, h, flags) ==
    base + sideDataOffset(h) + 8 + 4 * Bits(flags, 0, 1) + 4 * Bits(flags, 1, 1)
         + 100 * Bits(flags, 2, 1) + 4 * Bits(flags, 3, 1)

\* the byte at the offset i of a file whose frame starts at base and has the
\* header h, and whose Xing header has the tag and the flags
layoutByte(base, h, tag, flags, i) ==
    LET at   == base + sideDataOffset(h)
        offF == at + 8
        offB == offF + 4 * Bits(flags, 0, 1)
        offT == offB + 4 * Bits(flags, 1, 1)
        offQ == offT + 100 * Bits(flags, 2, 1)
    IN  CASE i < base -> 73
          [] i >= base /\ i < base + 4 -> wordByte(h, i - base)
          [] i >= base + 4 /\ i < at   -> 0
          [] i >= at /\ i < at + 4     -> wordByte(tag, i - at)
          [] i >= at + 4 /\ i < offF   -> wordByte(Word(0, flags), i - (at + 4))
          [] i >= offF /\ i < offB     -> wordByte(FramesValue, i - offF)
          [] i >= offB /\ i < offT     -> wordByte(BytesValue, i - offB)
          [] i >= offT /\ i < offQ     -> tocByte(i - offT)
          [] OTHER                     -> wordByte(QualityValue, i - offQ)

\* the first len bytes of that file, as the sequence of its bytes
fileOf(base, h, tag, flags, len) ==
    [n \in 1..len |-> layoutByte(base, h, tag, flags, n - 1)]

\* the byte at the offset i of the file f
byteAt(f, i) == f[i + 1]

\* a frame header with the sync defect d (0: all eleven bits set), the
\* version bits v, the layer bits l, the bitrate index i and the channel mode c
header(d, v, l, i, c) ==
    Word((2047 - d) * 32 + v * 8 + l * 2 + 1, i * 4096 + c * 64)

\* MPEG 1 layer III, 128 kbit/s, stereo
StereoHeader(d) == header(d, 3, 1, 9, 0)

\* MPEG 2 layer I, bitrate index 15, single channel
MonoHeader == header(0, 2, 3, 15, 3)

\* MPEG 1 layer I, bitrate index 0 (free format), stereo
FreeFormatHeader == header(0, 3, 3, 0, 0)

wholeFile(base, h, tag, flags) ==
    fileOf(base, h, tag, flags, fullLength(base, h, flags))

\* the files of a track that starts at base:
\*  - whole stereo frames with a Xing header and each combination of its
\*    flags;
\*  - a whole stereo frame with an Info header and all of its fields;
\*  - whole stereo frames under each defective sync pattern, with a Xing
\*    header and all of its fields;
\*  - a whole single channel frame and a whole free format frame, with a
\*    Xing header and all of its fields;
\*  - stereo frames cut two bytes before their end: inside the Xing header,
\*    under each defective sync pattern, and inside the quality indicator
\*    that follows the frame count;
\*  - a file that ends inside the frame header.
FilesAt(base) ==
    { wholeFile(base, StereoHeader(0), XingTag, flags) : flags \in 0..15 }
    \cup
    { wholeFile(base, StereoHeader(0), InfoTag, 15) }
    \cup
    { wholeFile(base, StereoHeader(d), XingTag, 15) : d \in 1..MaxSyncDefect }
    \cup
    { wholeFile(base, h, XingTag, 15) : h \in {MonoHeader, FreeFormatHeader} }
    \cup
    { fileOf(base, StereoHeader(d), XingTag, 0,
             fullLength(base, StereoHeader(d), 0) - 2) : d \in 1..MaxSyncDefect }
    \cup
    { fileOf(base, StereoHeader(0), XingTag, 9,
             fullLength(base, StereoHeader(0), 9) - 2) }
    \cup
    { fileOf(base, StereoHeader(0), XingTag, 0, base + 2) }

\* the files a track starting at each offset may read
Files == [base \in 0..MaxStartOffset |-> FilesAt(base)]

(***************************************************************************)
(* The input stream: a seekable source of the bytes of a file.             *)
(***************************************************************************)
\* BinaryReader::readUInt32BE fails when fewer than n bytes are left
canRead(f, p, n) == p >= 0 /\ p + n <= Len(f)

\* BinaryReader::readUInt32BE: four bytes, the most significant first
readUInt32BE(f, p) ==
    Word(byteAt(f, p) * 256 + byteAt(f, p + 1),
         byteAt(f, p + 2) * 256 + byteAt(f, p + 3))

\* BinaryReader::readUInt64BE: eight bytes, the most significant first
readUInt64BE(f, p) ==
    [hi |-> readUInt32BE(f, p), lo |-> readUInt32BE(f, p + 4)]

(***************************************************************************)
(* MpegAudioFrame: the Xing header.                                        *)
(***************************************************************************)
\* the upper four bytes of m_xingHeader are "Xing" or "Info"
isXingHeaderAvailable(fr) ==
    fr.m_xingHeader.hi = XingTag \/ fr.m_xingHeader.hi = InfoTag

\* the flag bits of m_xingHeaderFlags: frames 1, bytes 2, TOC 4, quality 8
isXingFramefieldPresent(fr) ==
    isXingHeaderAvailable(fr) /\ Bits(fr.m_xingHeaderFlags.lo, 0, 1) = 1

isXingBytesfieldPresent(fr) ==
    isXingHeaderAvailable(fr) /\ Bits(fr.m_xingHeaderFlags.lo, 1, 1) = 1

isXingTocFieldPresent(fr) ==
    isXingHeaderAvailable(fr) /\ Bits(fr.m_xingHeaderFlags.lo, 2, 1) = 1

isXingQualityIndicatorFieldPresent(fr) ==
    isXingHeaderAvailable(fr) /\ Bits(fr.m_xingHeaderFlags.lo, 3, 1) = 1

\* const uint64 MpegAudioFrame::m_xingHeaderOffset = 0x24
m_xingHeaderOffset == 36

\* reader.stream()->seekg(64, ios_base::cur)
TocSeek == 64

(***************************************************************************)
(* MpegAudioFrame::parseHeader, statement by statement.  A parse in        *)
(* progress is the record                                                  *)
(*   fr      the members of the frame,                                     *)
(*   pos     the stream's position,                                        *)
(*   io      whether a read has failed (the call ends with the failure),   *)
(*   xingAt  the position the Xing header was read from,                   *)
(*   log     the optional fields consumed so far, each with the position   *)
(*           it starts at and the number of bytes consumed.                *)
(***************************************************************************)
\* a failed read leaves the stream at its end and assigns nothing
ioFailure(st, f) == [st EXCEPT !.io = TRUE, !.pos = Len(f)]

\* m_header = reader.readUInt32BE()
readHeader(st, f) ==
    IF canRead(f, st.pos, 4)
    THEN [st EXCEPT !.fr.m_header = readUInt32BE(f, st.pos), !.pos = st.pos + 4]
    ELSE ioFailure(st, f)

\* reader.stream()->seekg(m_xingHeaderOffset - 4, ios_base::cur)
seekXingHeader(st) ==
    IF st.io THEN st ELSE [st EXCEPT !.pos = st.pos + (m_xingHeaderOffset - 4)]

\* m_xingHeader = reader.readUInt64BE();
\* m_xingHeaderFlags = static_cast<XingHeaderFlags>(m_xingHeader & 0xffffffffuL)
readXingHeader(st, f) ==
    IF st.io THEN st
    ELSE IF canRead(f, st.pos, 8)
    THEN [st EXCEPT !.fr.m_xingHeader = readUInt64BE(f, st.pos),
                    !.fr.m_xingHeaderFlags = readUInt64BE(f, st.pos).lo,
                    !.xingAt = st.pos,
                    !.pos = st.pos + 8]
    ELSE [ioFailure(st, f) EXCEPT !.xingAt = st.pos]

\* member = reader.readUInt32BE()
readField(st, f, member) ==
    IF canRead(f, st.pos, 4)
    THEN [st EXCEPT !.fr[member] = readUInt32BE(f, st.pos),
                    !.pos = st.pos + 4,
                    !.log = Append(st.log, [field |-> member, at |-> st.pos, n |-> 4])]
    ELSE ioFailure(st, f)

\* if(isXingFramefieldPresent()) { m_xingFramefield = reader.readUInt32BE(); }
readFramefield(st, f) ==
    IF st.io \/ ~isXingFramefieldPresent(st.fr) THEN st
    ELSE readField(st, f, "m_xingFramefield")

\* the byte count guarded by the flag of the frame count
readBytesfield_bug(st, f) ==
    IF st.io \/ ~isXingFramefieldPresent(st.fr) THEN st
    ELSE readField(st, f, "m_xingBytesfield")

\* if(isXingBytesfieldPresent()) { m_xingBytesfield = reader.readUInt32BE(); }
readBytesfield(st, f) ==
    IF st.io \/ ~isXingBytesfieldPresent(st.fr) THEN st
    ELSE readField(st, f, "m_xingBytesfield")

\* if(isXingTocFieldPresent()) { reader.stream()->seekg(64, ios_base::cur); }
skipToc(st) ==
    IF st.io \/ ~isXingTocFieldPresent(st.fr) THEN st
    ELSE [st EXCEPT !.pos = st.pos + TocSeek,
                    !.log = Append(st.log, [field |-> "toc", at |-> st.pos, n |-> TocSeek])]

\* if(isXingQualityIndicatorFieldPresent()) {
\*     m_xingQualityIndicator = reader.readUInt32BE(); }
readQualityIndicator(st, f) ==
    IF st.io \/ ~isXingQualityIndicatorFieldPresent(st.fr) THEN st
    ELSE readField(st, f, "m_xingQualityIndicator")

\* if(isXingHeaderAvailable()) { ... }
readXingFields(st, f) ==
    readQualityIndicator(skipToc(readBytesfield(readFramefield(st, f), f)), f)

\* the check of the header left out
throwsInvalidData_bug(h) == FALSE

\* if(!isValid()) { throw InvalidDataException(); }
throwsInvalidData(h) == ~isValid(h)

\* how the call ends after the reads st
finish(st) ==
    [fr |-> st.fr, pos |-> st.pos, xingAt |-> st.xingAt, log |-> st.log,
     result |-> IF st.io THEN "IoError"
                ELSE IF throwsInvalidData(st.fr.m_header) THEN "InvalidData"
                ELSE "ok"]

\* the whole call on the frame fr, the stream f at position p
parseHeader(fr, f, p) ==
    finish(readXingFields(
             readXingHeader(
               seekXingHeader(
                 readHeader([fr |-> fr, pos |-> p, io |-> FALSE, xingAt |-> p,
                             log |-> <<>>], f)), f), f))

(***************************************************************************)
(* The track and its frame.                                                *)
(***************************************************************************)
Frame ==
    [m_header |-> m_header, m_xingHeader |-> m_xingHeader,
     m_xingHeaderFlags |-> m_xingHeaderFlags,
     m_xingFramefield |-> m_xingFramefield,
     m_xingBytesfield |-> m_xingBytesfield,
     m_xingQualityIndicator |-> m_xingQualityIndicator]

Init ==
    /\ m_startOffset \in 0..MaxStartOffset
    /\ file \in Files[m_startOffset]
    /\ pos = 0
    /\ m_headerValid = FALSE
    /\ m_header = ZeroWord
    /\ m_xingHeader = ZeroWord64
    /\ m_xingHeaderFlags = ZeroWord
    /\ m_xingFramefield = ZeroWord
    /\ m_xingBytesfield = ZeroWord
    /\ m_xingQualityIndicator = ZeroWord
    /\ call = NoParse
    /\ ret = NoCall

\* m_istream->seekg(m_startOffset, ios_base::beg)
seekgBeg(p, offset) == offset

\* internalParseHeader() of the track of an MPEG audio stream: the frame at
\* the stream's position is parsed
internalParseHeader(fr, f, p) == parseHeader(fr, f, p)

\* the flag not reset before internalParseHeader is called
headerValidAfter_bug(before, result) == before \/ result = "ok"

\* m_headerValid = false; ... try { internalParseHeader();
\* m_headerValid = true; } catch(Failure &) { throw; }
headerValidAfter(before, result) == result = "ok"

(***************************************************************************)
(* A call reads no member before it has assigned it, so what it assigns    *)
(* does not depend on what the members held.  The calls are evaluated once *)
(* for each file and each position of the stream, on a frame whose members *)
(* are marked as not assigned; a member the call has not assigned keeps    *)
(* its value.                                                              *)
(***************************************************************************)
NotAssigned == Word(-1, -1)

BlankFrame ==
    [m_header |-> NotAssigned,
     m_xingHeader |-> [hi |-> NotAssigned, lo |-> NotAssigned],
     m_xingHeaderFlags |-> NotAssigned, m_xingFramefield |-> NotAssigned,
     m_xingBytesfield |-> NotAssigned, m_xingQualityIndicator |-> NotAssigned]

\* the positions a stream of the files at base may stand at
Positions(base) == 0..(fullLength(base, StereoHeader(0), 15) + TocSeek)

FrameParses ==
    [base \in 0..MaxStartOffset |->
        [f \in Files[base] |->
            [p \in Positions(base) |-> parseHeader(BlankFrame, f, p)]]]

TrackParses ==
    [base \in 0..MaxStartOffset |->
        [f \in Files[base] |->
            [p \in Positions(base) |->
                internalParseHeader(BlankFrame, f, seekgBeg(p, base))]]]

assigned(new, old) == IF new.hi = -1 THEN old ELSE new

assigned64(new, old) == IF new.hi.hi = -1 THEN old ELSE new

XingMembers == {"m_xingFramefield", "m_xingBytesfield", "m_xingQualityIndicator"}

\* the frame's members and the stream after the call r, made through via
\* on a stream at the position start; the record of the call keeps whether
\* the track's header was valid when its parseHeader was entered, and the
\* members that hold after the call what they held before it
Parsed(r, via, start) ==
    /\ m_header' = assigned(r.fr.m_header, m_header)
    /\ m_xingHeader' = assigned64(r.fr.m_xingHeader, m_xingHeader)
    /\ m_xingHeaderFlags' = assigned(r.fr.m_xingHeaderFlags, m_xingHeaderFlags)
    /\ m_xingFramefield' = assigned(r.fr.m_xingFramefield, m_xingFramefield)
    /\ m_xingBytesfield' = assigned(r.fr.m_xingBytesfield, m_xingBytesfield)
    /\ m_xingQualityIndicator' =
            assigned(r.fr.m_xingQualityIndicator, m_xingQualityIndicator)
    /\ pos' = r.pos
    /\ call' = [via |-> via, result |-> r.result,
                validBefore |-> (via = "track" /\ m_headerValid),
                start |-> start, xingAt |-> r.xingAt, log |-> r.log,
                kept |-> {m \in XingMembers : assigned(r.fr[m], Frame[m]) = Frame[m]}]

\* AbstractTrack::parseHeader, on a stream that holds the bytes f by the
\* time of the call
TrackParseHeader(f) ==
    \E r \in {TrackParses[m_startOffset][f][pos]} :
        /\ file' = f
        /\ Parsed(r, "track", seekgBeg(pos, m_startOffset))
        /\ m_headerValid' = headerValidAfter(m_headerValid, r.result)
        /\ UNCHANGED <<m_startOffset, ret>>

\* MpegAudioFrame::parseHeader on the track's reader, which its caller has
\* moved to the offset p of a stream that holds the bytes f: the start of
\* the track or the byte after it
FrameParseHeader(f, p) ==
    \E r \in {FrameParses[m_startOffset][f][p]} :
        /\ file' = f
        /\ Parsed(r, "frame", p)
        /\ UNCHANGED <<m_startOffset, m_headerValid, ret>>

Next ==
    \/ \E f \in Files[m_startOffset] : TrackParseHeader(f)
    \/ \E f \in Files[m_startOffset], p \in {m_startOffset, m_startOffset + 1} :
            FrameParseHeader(f, p)

Spec == Init /\ [][Next]_vars

(***************************************************************************)
(* Properties of the accessors (SpecFn).                                   *)
(***************************************************************************)
\* the bitrate of the header is a non-zero entry of the bitrate table
bitrateKnown(h) ==
    mpegVersion(h) > 0 /\ layer(h) > 0 /\ bitrateIndex(h) \in 1..14

\* the frame size of the MPEG standard, the bitrate b in kbit/s
standardSize(h, b) ==
    IF layer(h) = 1
    THEN ((12 * b * 1000) \div sampelRate(h) + paddingBit(h)) * 4
    ELSE (144 * b * 1000) \div sampelRate(h) + paddingBit(h)

\* C1: for a valid header with a known layer, a non-zero bitrate and a known
\* sample rate, size() returns (12 * bitrate / sample rate + padding) * 4 for
\* layer I and 144 * bitrate / sample rate + padding for the layers II and
\* III, the bitrate in bit/s.
C1_SizeIsStandardFrameSize ==
    (ret.fn = "size" /\ isValid(m_header) /\ bitrateKnown(m_header)
        /\ sampelRate(m_header) # 0)
    => \A b \in bitrateOutcomes(m_header) : ret.val = standardSize(m_header, b)

\* the sample rates of the MPEG standard: the rate of the index, halved
\* for MPEG 2.0 and quartered for MPEG 2.5
standardSampleRate(h) ==
    IF sampleRateBits(h) = 3 \/ mpegVersion(h) = 0
    THEN 0
    ELSE <<44100, 48000, 32000>>[sampleRateBits(h) + 1]
            \div (CASE mpegVersion(h) = 10 -> 1
                    [] mpegVersion(h) = 20 -> 2
                    [] OTHER -> 4)

\* C5: sampelRate() returns the sample rate of the MPEG standard for the
\* sample rate index and the version of the header (44100 / 22050 / 11025,
\* 48000 / 24000 / 12000, 32000 / 16000 / 8000 Hz for MPEG 1.0 / 2.0 / 2.5),
\* and 0 for the reserved index and for the reserved version.
C5_SampleRateIsStandard ==
    ret.fn = "sampelRate" => ret.val = standardSampleRate(m_header)

\* C5 witness: sampelRate() has returned 22050 for an MPEG 2.0 header with
\* the sample rate index 0
C5_Witness ==
    /\ ret.fn = "sampelRate"
    /\ mpegVersion(m_header) = 20
    /\ sampleRateBits(m_header) = 0
    /\ ret.val = 22050

\* C6: sampleCount() returns 384 for layer I, 1152 for layer II and for
\* layer III of MPEG 1.0, 576 for layer III of MPEG 2.0 and 2.5, and 0 when
\* the layer is reserved or the layer is III and the version is reserved.
C6_SampleCountByLayer ==
    ret.fn = "sampleCount" =>
        ret.val = (CASE layer(m_header) = 1 -> 384
                     [] layer(m_header) = 2 -> 1152
                     [] layer(m_header) = 3 /\ mpegVersion(m_header) = 10 -> 1152
                     [] layer(m_header) = 3 /\ mpegVersion(m_header) \in {20, 25} -> 576
                     [] OTHER -> 0)

\* C6 witness: sampleCount() has returned 576 for a layer III header of
\* MPEG 2.0
C6_Witness ==
    /\ ret.fn = "sampleCount"
    /\ layer(m_header) = 3
    /\ mpegVersion(m_header) = 20
    /\ ret.val = 576

\* C8: size() returns 0, and divides by no sample rate of zero, for every
\* header whose layer is reserved, whose sample rate is unknown or whose
\* bitrate is unknown.
C8_SizeIsZeroWhenUnknown ==
    (ret.fn = "size"
        /\ (layer(m_header) = 0 \/ sampelRate(m_header) = 0
              \/ bitrateOutcomes(m_header) = {0}))
    => (ret.val = 0 /\ ~ret.divZero)

(***************************************************************************)
(* Properties of the parsers (Spec).                                       *)
(***************************************************************************)
\* the most recent call has read the header word that m_header holds
headerRead == call.result # "none" /\ canRead(file, call.start, 4)

\* the most recent call has read the Xing header that m_xingHeader holds
xingHeaderRead == headerRead /\ canRead(file, call.xingAt, 8)

\* C2: a header that parseHeader accepts has a bitrate index other than 15,
\* and the bitrate of an accepted layer I header lies in 32..448 kbit/s.
C2_AcceptedBitrateInTable ==
    call.result = "ok" =>
        /\ bitrateIndex(m_header) # 15
        /\ layer(m_header) = 1 =>
              \A b \in bitrateOutcomes(m_header) : b \in 32..448

\* C3: with the TOC flag set, parseHeader moves the stream past a TOC of 100
\* bytes, and the field read next, the quality indicator, is the four bytes
\* that follow those 100 bytes.
C3_TocIsHundredBytes ==
    \A i \in DOMAIN call.log :
        call.log[i].field = "toc" =>
            /\ call.log[i].n = 100
            /\ i < Len(call.log) =>
                  /\ call.log[i + 1].at = call.log[i].at + 100
                  /\ m_xingQualityIndicator =
                        readUInt32BE(file, call.log[i].at + 100)

\* C4: parseHeader reads the Xing header at the offset after the frame's
\* first byte that belongs to the version and the channel mode of the header
\* it has read.
C4_XingOffsetByVersionAndMode ==
    xingHeaderRead => call.xingAt - call.start = sideDataOffset(m_header)

\* the stream holds every byte the call reads after the header word: the
\* Xing header at the offset m_xingHeaderOffset and the fields it flags
holdsSideData(f, start) ==
    LET x == start + m_xingHeaderOffset
    IN  /\ canRead(f, x, 8)
        /\ LET flags == readUInt64BE(f, x).lo.lo
               avail == readUInt64BE(f, x).hi \in {XingTag, InfoTag}
               last  == IF Bits(flags, 3, 1) = 1 THEN 3
                        ELSE IF Bits(flags, 1, 1) = 1 THEN 1
                        ELSE IF Bits(flags, 0, 1) = 1 THEN 0
                        ELSE -1
               need  == 4 * (IF last >= 0 THEN Bits(flags, 0, 1) ELSE 0)
                        + 4 * (IF last >= 1 THEN Bits(flags, 1, 1) ELSE 0)
                        + TocSeek * (IF last >= 3 THEN Bits(flags, 2, 1) ELSE 0)
                        + 4 * (IF last >= 3 THEN 1 ELSE 0)
           IN  avail => canRead(f, x + 8, need)

XingFields ==
    <<"m_xingFramefield", "m_xingBytesfield", "toc", "m_xingQualityIndicator">>

\* the field is flagged in the Xing header fr holds
flagged(fr, field) ==
    CASE field = "m_xingFramefield" -> isXingFramefieldPresent(fr)
      [] field = "m_xingBytesfield" -> isXingBytesfieldPresent(fr)
      [] field = "toc" -> isXingTocFieldPresent(fr)
      [] OTHER -> isXingQualityIndicatorFieldPresent(fr)

IsPrefix(s, t) == Len(s) <= Len(t) /\ \A i \in 1..Len(s) : s[i] = t[i]

\* C9: a call consumes the frame count, the byte count, the TOC and the
\* quality indicator in that order, one after the other from the end of the
\* Xing header, and only those whose flag is set in an available Xing
\* header; a field whose flag is clear, and every field when no Xing header
\* is available, consumes nothing and leaves its member as it was before the
\* call; a field that is read is stored in its member.
C9_FieldsGuardedByTheirFlags ==
    call.result # "none" =>
        LET IsFlagged(field) == xingHeaderRead /\ flagged(Frame, field)
            wanted == SelectSeq(XingFields, IsFlagged)
            names  == [i \in DOMAIN call.log |-> call.log[i].field]
            fields == {call.log[i].field : i \in DOMAIN call.log}
            end    == IF call.log = <<>> THEN call.xingAt + 8
                      ELSE call.log[Len(call.log)].at + call.log[Len(call.log)].n
        IN  /\ IsPrefix(names, wanted)
            /\ call.result # "IoError" => names = wanted /\ pos = end
            /\ \A i \in DOMAIN call.log :
                  /\ call.log[i].at = (IF i = 1 THEN call.xingAt + 8
                                       ELSE call.log[i - 1].at + call.log[i - 1].n)
                  /\ call.log[i].field # "toc" =>
                        Frame[call.log[i].field] = readUInt32BE(file, call.log[i].at)
            /\ XingMembers \ fields \subseteq call.kept

\* C9 witness: a call has read the frame count and the quality indicator of
\* a Xing header that flags only these two, and has kept the byte count read
\* by an earlier call
C9_Witness ==
    /\ call.result = "ok"
    /\ xingHeaderRead
    /\ isXingHeaderAvailable(Frame)
    /\ m_xingHeaderFlags = Word(0, 9)
    /\ Len(call.log) = 2
    /\ m_xingFramefield = FramesValue
    /\ m_xingBytesfield = BytesValue
    /\ "m_xingBytesfield" \in call.kept
    /\ m_xingQualityIndicator = QualityValue

\* C10: the header is not valid on a new track; every call of the track's
\* parseHeader starts internalParseHeader at the track's start offset, and
\* after it the header is valid if and only if internalParseHeader has
\* returned without throwing, whatever it was before the call.
C10_HeaderValidIffLastParseSucceeded ==
    /\ call.via = "none" => ~m_headerValid
    /\ call.via = "track" =>
          /\ call.start = m_startOffset
          /\ m_headerValid <=> call.result = "ok"

\* C10 witness: a call on a track whose header was valid has failed, away
\* from the position the previous call left the stream at, and the header
\* is not valid any more
C10_Witness ==
    /\ call.via = "track"
    /\ call.validBefore
    /\ call.result # "ok"
    /\ ~m_headerValid
====
